---- MODULE Spec2Model ----
(***************************************************************************)
(* The match registry, turn orchestration, solo countdown and reconnect    *)
(* grace window of the archr backend.                                      *)
(*                                                                         *)
(* The socket handlers are those of src/src/server.ts (lines 101-308); the *)
(* registry functions are those of src/src/gameState.ts (lines 137-273).   *)
(* That server passes the connection (socket.id) and the persistent        *)
(* identity (userId) separately, as declared by Player in                  *)
(* src/unnamed/part_001: a participant is [id, userId, score] and          *)
(* currentTurn holds a userId.  Where gameState.ts compares `playerId`,    *)
(* the model compares the identity for turn and score and the connection   *)
(* for removePlayer, which is what the server passes to each.              *)
(* findActiveGame, deleteRoom, the rebinding of a participant on rejoin    *)
(* and the retention of a solo participant on disconnect are not in the    *)
(* sources; they follow spec sections 3, 4.1 and 4.4.                      *)
(*                                                                         *)
(* Time is in whole seconds.  The wind is one of two values and a reroll   *)
(* draws the other one (two draws of Math.random differ).                  *)
(***************************************************************************)
EXTENDS Integers, Sequences, FiniteSets, TLC

\* ---------------------------------------------------------------- bounds
ClockStep == 30
MaxClock == 90
MaxSoloRound == 2
MaxSubmits == 1

Users == {"u1", "u2", "u3"}
SoloUsers == {"u1"}
Sockets == {"s1", "s2", "s3"}
\* the identity each socket registers with
Registrations == {<<"s1", "u1">>, <<"s2", "u2">>, <<"s3", "u3">>}
\* the solo runs: u1 reconnects on s3, and s3 can change its identity
SoloSockets == {"s1", "s3"}
SoloRegistrations == {<<"s1", "u1">>, <<"s3", "u1">>, <<"s3", "u3">>}
\* the grace runs: three connections of one identity, one after the other
GraceRegistrations == {<<"s1", "u1">>, <<"s2", "u1">>, <<"s3", "u1">>}
\* distance of the impact from the bullseye: a hit in the middle ring, a miss
AimDistances == {40, 90}
MainAimDistances == {40}
Winds == {0, 1}
InitialWinds == {0}

\* ------------------------------------------------------- program constants
SOLO_TIME_LIMIT == 60
SOLO_RECONNECT_WINDOW == 60
DUEL_MAX_ROUNDS == 5
SOLO_MAX_ROUNDS == 999
LEADERBOARD_SIZE == 10

NoUser == ""
ARENA == "default-arena"
SoloRoomId(u) == "solo_" \o u
SoloRoomIds == {SoloRoomId(u) : u \in Users}

VARIABLES
    rooms,          \* gameState.ts `rooms`: room id -> Room, for the ids present
    leaderboard,    \* gameState.ts `leaderboard`: scores, best first
    socketUserMap,  \* server.ts `socketUserMap`: socket -> userId, NoUser if absent
    socketRooms,    \* socket.rooms without the socket's own room, in join order
    connected,      \* the sockets that have not disconnected
    soloTimers,     \* server.ts `soloTimers`: room id -> an entry is present
    intervals,      \* room id -> number of setInterval drivers still running
    cleanupTimers,  \* server.ts `cleanupTimers`: room id -> an entry is present
    timeouts,       \* room id -> deadlines of the setTimeout calls still pending
    now,            \* Date.now(), in seconds
    emitted         \* the events the last handler emitted

vars == <<rooms, leaderboard, socketUserMap, socketRooms, connected,
          soloTimers, intervals, cleanupTimers, timeouts, now, emitted>>

\* ------------------------------------------------------------- physics.ts
calculateShot(distance) ==
    IF distance < 10 THEN 10
    ELSE IF distance < 30 THEN 8
    ELSE IF distance < 50 THEN 5
    ELSE IF distance < 80 THEN 2
    ELSE 0

\* ----------------------------------------------------------- gameState.ts
Put(rs, roomId, room) ==
    [r \in DOMAIN rs \cup {roomId} |-> IF r = roomId THEN room ELSE rs[r]]

deleteRoom(rs, roomId) == [r \in DOMAIN rs \ {roomId} |-> rs[r]]

OtherWind(w) == CHOOSE v \in Winds : v # w

createRoom(mode, w) ==
    [mode |-> mode,
     players |-> <<>>,
     currentTurn |-> "",
     round |-> IF mode = "solo" THEN 0 ELSE 1,
     maxRounds |-> IF mode = "solo" THEN SOLO_MAX_ROUNDS ELSE DUEL_MAX_ROUNDS,
     wind |-> w,
     timeLimit |-> IF mode = "solo" THEN SOLO_TIME_LIMIT ELSE 0,
     timeRemaining |-> IF mode = "solo" THEN SOLO_TIME_LIMIT ELSE 0,
     startedAt |-> 0]

\* players.findIndex(p => p.userId === userId), 1-based, 0 when absent
IndexOfUser(players, userId) ==
    IF \E i \in 1..Len(players) : players[i].userId = userId
    THEN CHOOSE i \in 1..Len(players) :
            /\ players[i].userId = userId
            /\ \A j \in 1..(i - 1) : players[j].userId # userId
    ELSE 0

\* players.findIndex(p => p.id === socketId), 1-based, 0 when absent
IndexOfSocket(players, socketId) ==
    IF \E i \in 1..Len(players) : players[i].id = socketId
    THEN CHOOSE i \in 1..Len(players) :
            /\ players[i].id = socketId
            /\ \A j \in 1..(i - 1) : players[j].id # socketId
    ELSE 0

Splice(players, idx) ==
    [i \in 1..(Len(players) - 1) |-> IF i < idx THEN players[i] ELSE players[i + 1]]

\* player.score += score, for the first participant of that identity
AddScore(players, userId, score) ==
    LET idx == IndexOfUser(players, userId)
    IN  [i \in 1..Len(players) |->
            IF i = idx THEN [players[i] EXCEPT !.score = @ + score] ELSE players[i]]

\* mutant: the duel capacity is off by one
maxPlayersOffByOne(mode) == IF mode = "solo" THEN 1 ELSE 3

maxPlayers(mode) == IF mode = "solo" THEN 1 ELSE 2

\* the reconnection branch of join: the identity already holds a slot
rebindPlayer(room, socketId, userId, mode) ==
    LET idx == IndexOfUser(room.players, userId)
        bound == [room EXCEPT !.players[idx].id = socketId]
    IN  IF mode = "solo" THEN [bound EXCEPT !.currentTurn = userId] ELSE bound

\* mutant: every joiner takes the turn
addPlayerTurnToJoiner(room, socketId, userId, mode, t) ==
    LET pushed == [room EXCEPT
                     !.players = Append(@, [id |-> socketId, userId |-> userId, score |-> 0])]
    IN  IF mode = "solo"
        THEN [pushed EXCEPT !.currentTurn = userId, !.startedAt = t, !.round = 1]
        ELSE [pushed EXCEPT !.currentTurn = userId]

\* joinRoom after the capacity check: push the participant and start the match
addPlayer(room, socketId, userId, mode, t) ==
    LET pushed == [room EXCEPT
                     !.players = Append(@, [id |-> socketId, userId |-> userId, score |-> 0])]
    IN  IF mode = "solo"
        THEN [pushed EXCEPT !.currentTurn = userId, !.startedAt = t, !.round = 1]
        ELSE IF Len(pushed.players) = 1
             THEN [pushed EXCEPT !.currentTurn = userId]
             ELSE pushed

\* mutant: joinRoom without the "already joined" check
joinRoomNoAlreadyJoined(rs, roomId, socketId, userId, mode, w, t) ==
    LET room == IF roomId \in DOMAIN rs THEN rs[roomId] ELSE createRoom(mode, w)
    IN  IF roomId \in DOMAIN rs /\ room.mode # mode
        THEN [rooms |-> rs, ok |-> FALSE]
        ELSE IF Len(room.players) >= maxPlayers(mode)
        THEN [rooms |-> Put(rs, roomId, room), ok |-> FALSE]
        ELSE [rooms |-> Put(rs, roomId, addPlayer(room, socketId, userId, mode, t)),
              ok |-> TRUE]

\* mutant: a join in another mode takes the match over
joinRoomCoercesMode(rs, roomId, socketId, userId, mode, w, t) ==
    LET room == IF roomId \in DOMAIN rs /\ rs[roomId].mode = mode
                THEN rs[roomId] ELSE createRoom(mode, w)
    IN  IF IndexOfUser(room.players, userId) # 0
        THEN [rooms |-> Put(rs, roomId, rebindPlayer(room, socketId, userId, mode)),
              ok |-> TRUE]
        ELSE IF Len(room.players) >= maxPlayers(mode)
        THEN [rooms |-> Put(rs, roomId, room), ok |-> FALSE]
        ELSE [rooms |-> Put(rs, roomId, addPlayer(room, socketId, userId, mode, t)),
              ok |-> TRUE]

\* joinRoom: [rooms |-> the registry afterwards, ok |-> a room was returned]
joinRoom(rs, roomId, socketId, userId, mode, w, t) ==
    LET room == IF roomId \in DOMAIN rs THEN rs[roomId] ELSE createRoom(mode, w)
    IN  IF roomId \in DOMAIN rs /\ room.mode # mode
        THEN [rooms |-> rs, ok |-> FALSE]
        ELSE IF IndexOfUser(room.players, userId) # 0
        THEN [rooms |-> Put(rs, roomId, rebindPlayer(room, socketId, userId, mode)),
              ok |-> TRUE]
        ELSE IF Len(room.players) >= maxPlayers(mode)
        THEN [rooms |-> Put(rs, roomId, room), ok |-> FALSE]
        ELSE [rooms |-> Put(rs, roomId, addPlayer(room, socketId, userId, mode, t)),
              ok |-> TRUE]

\* mutant: the match is over only below 0
isSoloGameOverStrict(room) ==
    IF room.mode # "solo" THEN FALSE ELSE room.timeRemaining < 0

isSoloGameOver(room) ==
    IF room.mode # "solo" THEN FALSE ELSE room.timeRemaining <= 0

\* a solo match of that identity that is registered and not over
findActiveGame(rs, userId) ==
    /\ SoloRoomId(userId) \in DOMAIN rs
    /\ rs[SoloRoomId(userId)].mode = "solo"
    /\ ~isSoloGameOver(rs[SoloRoomId(userId)])

\* the rooms removePlayer takes a participant from: a solo participant keeps
\* its slot for the grace window
removePlayerRooms(rs) == {r \in DOMAIN rs : rs[r].mode = "multiplayer"}

\* mutant: the turn is not passed on when its holder leaves
removeFromRoomKeepsTurn(room, idx) ==
    LET rest == Splice(room.players, idx)
    IN  IF room.mode = "multiplayer"
        THEN [room EXCEPT !.players = [i \in 1..Len(rest) |-> [rest[i] EXCEPT !.score = 0]],
                          !.round = 1,
                          !.wind = OtherWind(@)]
        ELSE [room EXCEPT !.players = rest]

\* removePlayer on the room found: the participant is spliced out, the
\* remaining duel is reset
removeFromRoom(room, idx) ==
    LET gone == room.players[idx].userId
        rest == Splice(room.players, idx)
        turn == IF room.currentTurn = gone /\ Len(rest) > 0
                THEN rest[1].userId ELSE room.currentTurn
    IN  IF room.mode = "multiplayer"
        THEN [room EXCEPT !.players = [i \in 1..Len(rest) |-> [rest[i] EXCEPT !.score = 0]],
                          !.currentTurn = turn,
                          !.round = 1,
                          !.wind = OtherWind(@)]
        ELSE [room EXCEPT !.players = rest]

removePlayer(rs, socketId) ==
    LET found == {r \in removePlayerRooms(rs) : IndexOfSocket(rs[r].players, socketId) # 0}
    IN  IF found = {} THEN rs
        ELSE LET r == CHOOSE x \in found : TRUE
                 idx == IndexOfSocket(rs[r].players, socketId)
             IN  IF Len(rs[r].players) = 1
                 THEN deleteRoom(rs, r)
                 ELSE Put(rs, r, removeFromRoom(rs[r], idx))

\* handleShot, solo branch (the room is not over)
soloShot(room, userId, score) ==
    [room EXCEPT !.players = AddScore(@, userId, score),
                 !.round = @ + 1,
                 !.wind = OtherWind(@)]

\* mutant: round grows with every shot
duelShotRoundEveryShot(room, userId, score) ==
    LET scored == [room EXCEPT !.players = AddScore(@, userId, score)]
        currentIdx == IndexOfUser(room.players, userId) - 1
        nextIdx == (currentIdx + 1) % Len(room.players)
        turned == [scored EXCEPT !.currentTurn = room.players[nextIdx + 1].userId]
    IN  IF turned.round + 1 > turned.maxRounds
        THEN [turned EXCEPT !.round = @ + 1, !.currentTurn = ""]
        ELSE [turned EXCEPT !.round = @ + 1, !.wind = OtherWind(@)]

\* mutant: the round limit does not end the match
duelShotNeverConcludes(room, userId, score) ==
    LET scored == [room EXCEPT !.players = AddScore(@, userId, score)]
        currentIdx == IndexOfUser(room.players, userId) - 1
        nextIdx == (currentIdx + 1) % Len(room.players)
        turned == [scored EXCEPT !.currentTurn = room.players[nextIdx + 1].userId]
    IN  IF nextIdx = 0
        THEN [turned EXCEPT !.round = @ + 1, !.wind = OtherWind(@)]
        ELSE turned

\* mutant: the wind is rerolled by every shot
duelShotAlwaysRerolls(room, userId, score) ==
    LET scored == [room EXCEPT !.players = AddScore(@, userId, score)]
        currentIdx == IndexOfUser(room.players, userId) - 1
        nextIdx == (currentIdx + 1) % Len(room.players)
        turned == [scored EXCEPT !.currentTurn = room.players[nextIdx + 1].userId,
                                 !.wind = OtherWind(@)]
    IN  IF nextIdx = 0
        THEN IF turned.round + 1 > turned.maxRounds
             THEN [turned EXCEPT !.round = @ + 1, !.currentTurn = ""]
             ELSE [turned EXCEPT !.round = @ + 1]
        ELSE turned

\* mutant: the match ends when round reaches maxRounds
duelShotConcludesEarly(room, userId, score) ==
    LET scored == [room EXCEPT !.players = AddScore(@, userId, score)]
        currentIdx == IndexOfUser(room.players, userId) - 1
        nextIdx == (currentIdx + 1) % Len(room.players)
        turned == [scored EXCEPT !.currentTurn = room.players[nextIdx + 1].userId]
    IN  IF nextIdx = 0
        THEN IF turned.round + 1 >= turned.maxRounds
             THEN [turned EXCEPT !.round = @ + 1, !.currentTurn = ""]
             ELSE [turned EXCEPT !.round = @ + 1, !.wind = OtherWind(@)]
        ELSE turned

\* handleShot, multiplayer branch (it is userId's turn)
duelShot(room, userId, score) ==
    LET scored == [room EXCEPT !.players = AddScore(@, userId, score)]
        currentIdx == IndexOfUser(room.players, userId) - 1
        nextIdx == (currentIdx + 1) % Len(room.players)
        turned == [scored EXCEPT !.currentTurn = room.players[nextIdx + 1].userId]
    IN  IF nextIdx = 0
        THEN IF turned.round + 1 > turned.maxRounds
             THEN [turned EXCEPT !.round = @ + 1, !.currentTurn = ""]
             ELSE [turned EXCEPT !.round = @ + 1, !.wind = OtherWind(@)]
        ELSE turned

\* handleShot: [room |-> the room afterwards, ok |-> a room was returned]
handleShot(room, userId, score) ==
    IF room.mode = "solo"
    THEN IF isSoloGameOver(room)
         THEN [room |-> room, ok |-> TRUE]
         ELSE [room |-> soloShot(room, userId, score), ok |-> TRUE]
    ELSE IF room.currentTurn # userId
         THEN [room |-> room, ok |-> FALSE]
         ELSE [room |-> duelShot(room, userId, score), ok |-> TRUE]

Max(a, b) == IF a >= b THEN a ELSE b

\* mutant: the remaining time is not clamped at 0
tickTimerNoClamp(rs, roomId, t) ==
    IF roomId \notin DOMAIN rs \/ rs[roomId].mode # "solo"
    THEN [rooms |-> rs, ok |-> FALSE]
    ELSE [rooms |-> Put(rs, roomId,
                        [rs[roomId] EXCEPT
                           !.timeRemaining = rs[roomId].timeLimit
                                               - (t - rs[roomId].startedAt)]),
          ok |-> TRUE]

\* mutant: every tick takes one second off
tickTimerCountsDown(rs, roomId, t) ==
    IF roomId \notin DOMAIN rs \/ rs[roomId].mode # "solo"
    THEN [rooms |-> rs, ok |-> FALSE]
    ELSE [rooms |-> Put(rs, roomId,
                        [rs[roomId] EXCEPT !.timeRemaining = Max(0, @ - 1)]),
          ok |-> TRUE]

\* tickTimer: [rooms |-> the registry afterwards, ok |-> a room was returned]
tickTimer(rs, roomId, t) ==
    IF roomId \notin DOMAIN rs \/ rs[roomId].mode # "solo"
    THEN [rooms |-> rs, ok |-> FALSE]
    ELSE [rooms |-> Put(rs, roomId,
                        [rs[roomId] EXCEPT
                           !.timeRemaining = Max(0, rs[roomId].timeLimit
                                                    - (t - rs[roomId].startedAt))]),
          ok |-> TRUE]

\* leaderboard.sort((a, b) => b.score - a.score) after a push: the new score
\* goes after the scores that are not smaller
InsertSorted(board, score) ==
    LET k == Cardinality({i \in 1..Len(board) : board[i] >= score})
    IN  [i \in 1..(Len(board) + 1) |->
            IF i <= k THEN board[i] ELSE IF i = k + 1 THEN score ELSE board[i - 1]]

submitScore(board, score) ==
    LET sorted == InsertSorted(board, score)
    IN  IF Len(sorted) > LEADERBOARD_SIZE THEN SubSeq(sorted, 1, LEADERBOARD_SIZE) ELSE sorted

SeedLeaderboard == <<500, 450, 400, 350, 100>>

\* -------------------------------------------------------------- server.ts
Init ==
    /\ rooms = <<>>
    /\ leaderboard = SeedLeaderboard
    /\ socketUserMap = [s \in Sockets |-> NoUser]
    /\ socketRooms = [s \in Sockets |-> <<>>]
    /\ connected = Sockets
    /\ soloTimers = [r \in SoloRoomIds |-> FALSE]
    /\ intervals = [r \in SoloRoomIds |-> 0]
    /\ cleanupTimers = [r \in SoloRoomIds |-> FALSE]
    /\ timeouts = [r \in SoloRoomIds |-> <<>>]
    /\ now = 0
    /\ emitted = {}

\* socket.join(roomId): a Set keeps the first insertion
SocketJoin(s, roomId) ==
    IF \E i \in 1..Len(socketRooms[s]) : socketRooms[s][i] = roomId
    THEN socketRooms
    ELSE [socketRooms EXCEPT ![s] = Append(@, roomId)]

\* mutant: the entry is dropped but the interval is not cleared
StopTimerKeepsDriver(roomId) ==
    /\ soloTimers' = [soloTimers EXCEPT ![roomId] = FALSE]
    /\ intervals' = intervals

\* clearInterval(soloTimers[roomId]); delete soloTimers[roomId]
StopTimer(roomId) ==
    /\ soloTimers' = [soloTimers EXCEPT ![roomId] = FALSE]
    /\ intervals' = [intervals EXCEPT ![roomId] = IF soloTimers[roomId] THEN @ - 1 ELSE @]

\* socket.on('register'): the client sends a valid userId or is given a new one
Register(s, u) ==
    /\ s \in connected
    /\ socketUserMap' = [socketUserMap EXCEPT ![s] = u]
    /\ emitted' = {"registered"}
    /\ UNCHANGED <<rooms, leaderboard, socketRooms, connected, soloTimers, intervals,
                   cleanupTimers, timeouts, now>>

\* socket.on('joinGame') from a socket that is not registered
JoinUnregistered(s) ==
    /\ s \in connected
    /\ socketUserMap[s] = NoUser
    /\ emitted' = {"error"}
    /\ UNCHANGED <<rooms, leaderboard, socketUserMap, socketRooms, connected, soloTimers,
                   intervals, cleanupTimers, timeouts, now>>

\* socket.on('joinGame', 'solo')
JoinSolo(s, w) ==
    /\ s \in connected
    /\ socketUserMap[s] \in SoloUsers
    /\ LET userId == socketUserMap[s]
           roomId == SoloRoomId(userId)
           activeGame == findActiveGame(rooms, userId)
           rejoined == joinRoom(rooms, roomId, s, userId, "solo", w, now)
           had == roomId \in DOMAIN rooms
           fresh == joinRoom(IF had THEN deleteRoom(rooms, roomId) ELSE rooms,
                             roomId, s, userId, "solo", w, now)
           left == IF had /\ soloTimers[roomId]
                   THEN intervals[roomId] - 1 ELSE intervals[roomId]
       IN  /\ cleanupTimers' = [cleanupTimers EXCEPT ![roomId] = FALSE]
           /\ timeouts' = IF cleanupTimers[roomId]
                          THEN [timeouts EXCEPT ![roomId] = SubSeq(@, 1, Len(@) - 1)]
                          ELSE timeouts
           /\ IF activeGame /\ rejoined.ok
              THEN /\ rooms' = rejoined.rooms
                   /\ socketRooms' = SocketJoin(s, roomId)
                   /\ emitted' = {"gameState"}
                   /\ soloTimers' = [soloTimers EXCEPT ![roomId] = TRUE]
                   /\ intervals' = [intervals EXCEPT
                                      ![roomId] = IF soloTimers[roomId] THEN @ ELSE @ + 1]
              ELSE /\ rooms' = fresh.rooms
                   /\ IF fresh.ok
                      THEN /\ socketRooms' = SocketJoin(s, roomId)
                           /\ emitted' = {"gameState"}
                           /\ soloTimers' = [soloTimers EXCEPT ![roomId] = TRUE]
                           /\ intervals' = [intervals EXCEPT ![roomId] = left + 1]
                      ELSE /\ socketRooms' = socketRooms
                           /\ emitted' = {"error"}
                           /\ soloTimers' = [soloTimers EXCEPT
                                               ![roomId] = IF had THEN FALSE ELSE @]
                           /\ intervals' = [intervals EXCEPT ![roomId] = left]
    /\ UNCHANGED <<leaderboard, socketUserMap, connected, now>>

\* socket.on('joinGame', 'multiplayer')
JoinMultiplayer(s, w) ==
    /\ s \in connected
    /\ socketUserMap[s] # NoUser
    /\ LET joined == joinRoom(rooms, ARENA, s, socketUserMap[s], "multiplayer", w, now)
       IN  /\ rooms' = joined.rooms
           /\ IF joined.ok
              THEN /\ socketRooms' = SocketJoin(s, ARENA)
                   /\ emitted' = {"gameState"}
              ELSE /\ socketRooms' = socketRooms
                   /\ emitted' = {"error"}
    /\ UNCHANGED <<leaderboard, socketUserMap, connected, soloTimers, intervals,
                   cleanupTimers, timeouts, now>>

\* mutant: the handler does not check whose turn it is
ShotPassesAnyTurn(s) ==
    /\ socketUserMap[s] # NoUser
    /\ socketRooms[s] # <<>>
    /\ socketRooms[s][1] \in DOMAIN rooms
    /\ rooms[socketRooms[s][1]].mode = "solo"
          => ~isSoloGameOver(rooms[socketRooms[s][1]])

\* the shoot handler passes its checks: registered, in a room that is
\* registered, not over (solo) or the turn holder's shot (multiplayer)
ShotPasses(s) ==
    /\ socketUserMap[s] # NoUser
    /\ socketRooms[s] # <<>>
    /\ socketRooms[s][1] \in DOMAIN rooms
    /\ IF rooms[socketRooms[s][1]].mode = "solo"
       THEN ~isSoloGameOver(rooms[socketRooms[s][1]])
       ELSE rooms[socketRooms[s][1]].currentTurn = socketUserMap[s]

\* socket.on('shoot')
Shoot(s, distance) ==
    /\ s \in connected
    /\ IF ShotPasses(s)
       THEN LET roomId == socketRooms[s][1]
                result == calculateShot(distance)
                updated == handleShot(rooms[roomId], socketUserMap[s], result)
            IN  /\ rooms[roomId].mode = "solo" => rooms[roomId].round < MaxSoloRound
                /\ rooms' = Put(rooms, roomId, updated.room)
                /\ emitted' = {"shotResult", "gameState"}
       ELSE /\ rooms' = rooms
            /\ emitted' = {}
    /\ UNCHANGED <<leaderboard, socketUserMap, socketRooms, connected, soloTimers,
                   intervals, cleanupTimers, timeouts, now>>

\* socket.on('submitScore')
SubmitScore(s, score) ==
    /\ s \in connected
    /\ socketUserMap[s] # NoUser
    /\ Len(leaderboard) < Len(SeedLeaderboard) + MaxSubmits
    /\ leaderboard' = submitScore(leaderboard, score)
    /\ emitted' = {"leaderboardUpdate"}
    /\ UNCHANGED <<rooms, socketUserMap, socketRooms, connected, soloTimers, intervals,
                   cleanupTimers, timeouts, now>>

\* socket.on('getLeaderboard')
GetLeaderboard(s) ==
    /\ s \in connected
    /\ emitted' = {"leaderboardUpdate"}
    /\ UNCHANGED <<rooms, leaderboard, socketUserMap, socketRooms, connected, soloTimers,
                   intervals, cleanupTimers, timeouts, now>>

\* socket.on('disconnect')
Disconnect(s) ==
    /\ s \in connected
    /\ LET userId == socketUserMap[s]
           soloRoomId == SoloRoomId(userId)
           soloRoom == soloRoomId \in DOMAIN rooms
           grace == userId # NoUser /\ soloRoom /\ ~isSoloGameOver(rooms[soloRoomId])
           teardown == userId # NoUser /\ ~grace
       IN  /\ cleanupTimers' = IF grace
                               THEN [cleanupTimers EXCEPT ![soloRoomId] = TRUE]
                               ELSE cleanupTimers
           /\ timeouts' = IF grace
                          THEN [timeouts EXCEPT
                                  ![soloRoomId] = Append(@, now + SOLO_RECONNECT_WINDOW)]
                          ELSE timeouts
           /\ IF teardown
              THEN StopTimer(soloRoomId)
              ELSE UNCHANGED <<soloTimers, intervals>>
           /\ rooms' = removePlayer(IF teardown /\ soloRoom
                                    THEN deleteRoom(rooms, soloRoomId) ELSE rooms, s)
    /\ socketUserMap' = [socketUserMap EXCEPT ![s] = NoUser]
    /\ socketRooms' = [socketRooms EXCEPT ![s] = <<>>]
    /\ connected' = connected \ {s}
    /\ emitted' = {}
    /\ UNCHANGED <<leaderboard, now>>

\* mutant: the callback never ends the match
TickKeepsRunning(roomId) ==
    /\ intervals[roomId] > 0
    /\ LET ticked == tickTimer(rooms, roomId, now)
       IN  IF ~ticked.ok
           THEN /\ StopTimer(roomId)
                /\ rooms' = rooms
                /\ emitted' = {}
           ELSE /\ UNCHANGED <<soloTimers, intervals>>
                /\ rooms' = ticked.rooms
                /\ emitted' = {"timerUpdate"}
    /\ UNCHANGED <<leaderboard, socketUserMap, socketRooms, connected, cleanupTimers,
                   timeouts, now>>

\* the setInterval callback of a solo room (both closures are the same code)
Tick(roomId) ==
    /\ intervals[roomId] > 0
    /\ LET ticked == tickTimer(rooms, roomId, now)
       IN  IF ~ticked.ok
           THEN /\ StopTimer(roomId)
                /\ rooms' = rooms
                /\ emitted' = {}
           ELSE IF isSoloGameOver(ticked.rooms[roomId])
           THEN /\ StopTimer(roomId)
                /\ rooms' = Put(ticked.rooms, roomId,
                                [ticked.rooms[roomId] EXCEPT !.currentTurn = ""])
                /\ emitted' = {"timerUpdate", "gameState"}
           ELSE /\ UNCHANGED <<soloTimers, intervals>>
                /\ rooms' = ticked.rooms
                /\ emitted' = {"timerUpdate"}
    /\ UNCHANGED <<leaderboard, socketUserMap, socketRooms, connected, cleanupTimers,
                   timeouts, now>>

\* mutant: the deferred deletion leaves the countdown running
CleanupFireKeepsTimer(roomId) ==
    /\ timeouts[roomId] # <<>>
    /\ timeouts[roomId][1] <= now
    /\ rooms' = deleteRoom(rooms, roomId)
    /\ cleanupTimers' = [cleanupTimers EXCEPT ![roomId] = FALSE]
    /\ timeouts' = [timeouts EXCEPT ![roomId] = Tail(@)]
    /\ emitted' = {}
    /\ UNCHANGED <<leaderboard, socketUserMap, socketRooms, connected, now,
                   soloTimers, intervals>>

\* the setTimeout callback armed by a disconnect, once its delay has passed;
\* timeouts of one delay fire in the order they were armed
CleanupFire(roomId) ==
    /\ timeouts[roomId] # <<>>
    /\ timeouts[roomId][1] <= now
    /\ StopTimer(roomId)
    /\ rooms' = deleteRoom(rooms, roomId)
    /\ cleanupTimers' = [cleanupTimers EXCEPT ![roomId] = FALSE]
    /\ timeouts' = [timeouts EXCEPT ![roomId] = Tail(@)]
    /\ emitted' = {}
    /\ UNCHANGED <<leaderboard, socketUserMap, socketRooms, connected, now>>

\* the clock moves on
AdvanceClock ==
    /\ \E r \in SoloRoomIds : intervals[r] > 0 \/ timeouts[r] # <<>>
    /\ now + ClockStep <= MaxClock
    /\ now' = now + ClockStep
    /\ emitted' = {}
    /\ UNCHANGED <<rooms, leaderboard, socketUserMap, socketRooms, connected, soloTimers,
                   intervals, cleanupTimers, timeouts>>

\* every handler and callback, one identity per socket
Next ==
    \/ \E reg \in Registrations : Register(reg[1], reg[2])
    \/ \E s \in Sockets : JoinUnregistered(s)
    \/ \E s \in Sockets, w \in InitialWinds : JoinSolo(s, w)
    \/ \E s \in Sockets, w \in InitialWinds : JoinMultiplayer(s, w)
    \/ \E s \in Sockets, d \in MainAimDistances : Shoot(s, d)
    \/ \E s \in Sockets, d \in MainAimDistances : SubmitScore(s, calculateShot(d))
    \/ \E s \in Sockets : GetLeaderboard(s)
    \/ \E s \in Sockets : Disconnect(s)
    \/ \E r \in SoloRoomIds : Tick(r)
    \/ \E r \in SoloRoomIds : CleanupFire(r)
    \/ AdvanceClock

Spec == Init /\ [][Next]_vars

\* the duel alone: the handlers that touch the arena, three identities
NextDuel ==
    \/ \E reg \in Registrations : Register(reg[1], reg[2])
    \/ \E s \in Sockets, w \in InitialWinds : JoinMultiplayer(s, w)
    \/ \E s \in Sockets, d \in AimDistances : Shoot(s, d)
    \/ \E s \in Sockets : Disconnect(s)

SpecDuel == Init /\ [][NextDuel]_vars

\* the duel of two who stay: nobody disconnects, shots are sent once both
\* have joined, and every shot hits the same ring
NextPair ==
    \/ \E reg \in Registrations : Register(reg[1], reg[2])
    \/ \E s \in Sockets, w \in InitialWinds : JoinMultiplayer(s, w)
    \/ \E s \in Sockets, d \in MainAimDistances :
          /\ ARENA \in DOMAIN rooms
          /\ Len(rooms[ARENA].players) = 2
          /\ Shoot(s, d)

SpecPair == Init /\ [][NextPair]_vars

\* the solo match alone: its handlers, its countdown and its grace window,
\* with two connections for one identity
NextSolo ==
    \/ \E reg \in SoloRegistrations : Register(reg[1], reg[2])
    \/ \E s \in SoloSockets, w \in InitialWinds : JoinSolo(s, w)
    \/ \E s \in SoloSockets, d \in AimDistances : Shoot(s, d)
    \/ \E s \in SoloSockets, d \in MainAimDistances : SubmitScore(s, calculateShot(d))
    \/ \E s \in SoloSockets : Disconnect(s)
    \/ \E r \in SoloRoomIds : Tick(r)
    \/ \E r \in SoloRoomIds : CleanupFire(r)
    \/ AdvanceClock

SpecSolo == Init /\ [][NextSolo]_vars

\* the solo match with its timers firing: a setInterval callback runs every
\* second, a setTimeout callback runs once its delay has passed, and the
\* clock moves on
SpecSoloFair ==
    /\ SpecSolo
    /\ WF_vars(AdvanceClock)
    /\ \A r \in SoloRoomIds : WF_vars(Tick(r)) /\ WF_vars(CleanupFire(r))

\* the grace window alone: joins and disconnects of three connections of
\* one identity, the countdown and the deferred deletions
NextGrace ==
    \/ \E reg \in GraceRegistrations : Register(reg[1], reg[2])
    \/ \E s \in Sockets, w \in InitialWinds : JoinSolo(s, w)
    \/ \E s \in Sockets : Disconnect(s)
    \/ \E r \in SoloRoomIds : Tick(r)
    \/ \E r \in SoloRoomIds : CleanupFire(r)
    \/ AdvanceClock

SpecGrace == Init /\ [][NextGrace]_vars

\* ------------------------------------------------------------------ claims
InArena(s) ==
    /\ s \in connected
    /\ socketUserMap[s] # NoUser
    /\ socketRooms[s] # <<>>
    /\ socketRooms[s][1] = ARENA
    /\ ARENA \in DOMAIN rooms

\* a step in which the arena took a shot
DuelShotStep ==
    /\ ARENA \in DOMAIN rooms
    /\ ARENA \in DOMAIN rooms'
    /\ "shotResult" \in emitted'
    /\ rooms'[ARENA] # rooms[ARENA]

FirstPlayer(room) == room.players[1].userId

\* the participant after the turn holder in join order, cyclically
NextInJoinOrder(room) ==
    room.players[(IndexOfUser(room.players, room.currentTurn) % Len(room.players)) + 1].userId

\* round grows by one exactly when the next participant is the first one
RoundPerCycle ==
    rooms'[ARENA].round =
        IF NextInJoinOrder(rooms[ARENA]) = FirstPlayer(rooms[ARENA])
        THEN rooms[ARENA].round + 1 ELSE rooms[ARENA].round

SameParticipants ==
    [i \in 1..Len(rooms'[ARENA].players) |-> rooms'[ARENA].players[i].userId]
        = [i \in 1..Len(rooms[ARENA].players) |-> rooms[ARENA].players[i].userId]

TurnToNext ==
    DuelShotStep =>
        (/\ rooms'[ARENA].currentTurn = NextInJoinOrder(rooms[ARENA])
         /\ RoundPerCycle)

TurnToNextUnlessConcluded ==
    DuelShotStep =>
        (/\ RoundPerCycle
         /\ rooms'[ARENA].currentTurn =
              IF rooms'[ARENA].round > rooms[ARENA].maxRounds
              THEN "" ELSE NextInJoinOrder(rooms[ARENA])
         /\ SameParticipants)

\* C1 as stated: after every accepted duel shot the turn holder is the next
\* participant in join order, and round grows by one exactly when that next
\* participant is the first in join order.
C1_Original == [][TurnToNext]_vars

\* C1 amended: after every accepted duel shot the turn holder is the next
\* participant in join order, cyclically, unless the shot makes round exceed
\* maxRounds, in which case the turn holder is empty; round grows by exactly one
\* when, and only when, the next participant is the first in join order; the
\* participants and their order are those before the shot.
C1_TurnCycles == [][TurnToNextUnlessConcluded]_vars

\* two participants, a full cycle of shots done: round 2, the first one's turn
C1_Witness ==
    /\ ARENA \in DOMAIN rooms
    /\ Len(rooms[ARENA].players) = 2
    /\ rooms[ARENA].round = 2
    /\ rooms[ARENA].currentTurn = FirstPlayer(rooms[ARENA])
    /\ rooms[ARENA].players[1].score > 0
    /\ emitted = {"shotResult", "gameState"}

\* a shot of some participant would be accepted
DuelAccepting(room) ==
    \E i \in 1..Len(room.players) : room.players[i].userId = room.currentTurn

\* the shot that takes round past maxRounds empties the turn holder
ConcludingShot ==
    DuelShotStep /\ rooms'[ARENA].round > rooms[ARENA].maxRounds
        => rooms'[ARENA].currentTurn = ""

\* with an empty turn holder no shot is taken and the match stays concluded
ConcludedStays ==
    ARENA \in DOMAIN rooms /\ rooms[ARENA].currentTurn = ""
        => (/\ "shotResult" \notin emitted'
            /\ \A s \in Sockets, d \in AimDistances :
                  InArena(s) /\ Shoot(s, d) => rooms' = rooms
            /\ ARENA \in DOMAIN rooms' => rooms'[ARENA].currentTurn = "")

\* C2: while a participant's shot would be accepted round is at most maxRounds;
\* the shot that takes round past maxRounds empties the turn holder; and while
\* the turn holder of the match is empty no shot result is produced and the
\* match stays as it is.
C2_RoundLimit ==
    /\ [](ARENA \in DOMAIN rooms /\ DuelAccepting(rooms[ARENA])
            => rooms[ARENA].round <= rooms[ARENA].maxRounds)
    /\ [][ConcludingShot]_vars
    /\ [][ConcludedStays]_vars

\* the match is concluded: round is past maxRounds, nobody holds the turn, and
\* both participants are still connected
C2_Witness ==
    /\ ARENA \in DOMAIN rooms
    /\ rooms[ARENA].round > rooms[ARENA].maxRounds
    /\ rooms[ARENA].currentTurn = ""
    /\ Len(rooms[ARENA].players) = 2
    /\ \A i \in 1..2 : InArena(rooms[ARENA].players[i].id)
    /\ emitted = {}

JoinAtCapacity(s) ==
    /\ s \in connected
    /\ socketUserMap[s] # NoUser
    /\ ARENA \in DOMAIN rooms
    /\ Len(rooms[ARENA].players) >= 2
    /\ IndexOfUser(rooms[ARENA].players, socketUserMap[s]) = 0
    /\ \E w \in InitialWinds : JoinMultiplayer(s, w)

\* a join that would exceed the capacity changes nothing and reports an error
RejectedAtCapacity ==
    \A s \in Sockets : JoinAtCapacity(s) => rooms' = rooms /\ emitted' = {"error"}

\* C4: a duel match holds at most 2 participants and a solo match at most 1,
\* and a join that would exceed the capacity is rejected: the registry is
\* unchanged and the requester gets an error.
C4_Capacity ==
    /\ [](\A r \in DOMAIN rooms :
            Len(rooms[r].players) <= (IF rooms[r].mode = "solo" THEN 1 ELSE 2))
    /\ [][RejectedAtCapacity]_vars

\* a third identity was refused by a full arena while a solo match runs
C4_Witness ==
    /\ ARENA \in DOMAIN rooms
    /\ Len(rooms[ARENA].players) = 2
    /\ emitted = {"error"}
    /\ \E s \in connected :
          /\ socketUserMap[s] # NoUser
          /\ IndexOfUser(rooms[ARENA].players, socketUserMap[s]) = 0
          /\ socketRooms[s] = <<>>
    /\ \E r \in SoloRoomIds : r \in DOMAIN rooms /\ Len(rooms[r].players) = 1

\* --------------------------------------------------------- solo claims
SoloRoomOf(s) == SoloRoomId(socketUserMap[s])

\* a solo join by a connection whose identity has a match that its connection
\* left, with the deferred deletion pending and not yet due
RejoinInGrace(s) ==
    /\ s \in connected
    /\ socketUserMap[s] \in SoloUsers
    /\ SoloRoomOf(s) \in DOMAIN rooms
    /\ cleanupTimers[SoloRoomOf(s)]
    /\ timeouts[SoloRoomOf(s)] # <<>>
    /\ timeouts[SoloRoomOf(s)][Len(timeouts[SoloRoomOf(s)])] > now
    /\ rooms[SoloRoomOf(s)].players[1].id \notin connected
    /\ \E w \in InitialWinds : JoinSolo(s, w)

\* the match of s after the step is the one before it: score, round and
\* startedAt are kept and the identity of s holds the turn
Resumed(s) ==
    /\ SoloRoomOf(s) \in DOMAIN rooms'
    /\ Len(rooms'[SoloRoomOf(s)].players) = 1
    /\ rooms'[SoloRoomOf(s)].players[1].userId = socketUserMap[s]
    /\ rooms'[SoloRoomOf(s)].players[1].score = rooms[SoloRoomOf(s)].players[1].score
    /\ rooms'[SoloRoomOf(s)].round = rooms[SoloRoomOf(s)].round
    /\ rooms'[SoloRoomOf(s)].startedAt = rooms[SoloRoomOf(s)].startedAt
    /\ rooms'[SoloRoomOf(s)].currentTurn = socketUserMap[s]

RejoinResumes == \A s \in Sockets : RejoinInGrace(s) => Resumed(s)

RejoinResumesUnlessOver ==
    \A s \in Sockets :
        RejoinInGrace(s) /\ rooms[SoloRoomOf(s)].timeRemaining > 0 => Resumed(s)

\* the disconnect of a connection of the identity of a solo match that is not
\* over keeps the match as it is and arms the deferred deletion
DisconnectKeepsSolo ==
    \A s \in Sockets :
        (/\ Disconnect(s)
         /\ socketUserMap[s] \in SoloUsers
         /\ SoloRoomOf(s) \in DOMAIN rooms
         /\ rooms[SoloRoomOf(s)].timeRemaining > 0)
        => (/\ SoloRoomOf(s) \in DOMAIN rooms'
            /\ rooms'[SoloRoomOf(s)] = rooms[SoloRoomOf(s)]
            /\ cleanupTimers'[SoloRoomOf(s)])

GraceExpires ==
    \A r \in SoloRoomIds :
        CleanupFire(r) =>
            (/\ r \notin DOMAIN rooms'
             /\ ~soloTimers'[r]
             /\ intervals'[r] = 0)

\* a solo join of an identity that has no match registered starts a new one
FreshAfterExpiry ==
    \A s \in Sockets :
        (/\ s \in connected
         /\ socketUserMap[s] \in SoloUsers
         /\ SoloRoomOf(s) \notin DOMAIN rooms
         /\ \E w \in InitialWinds : JoinSolo(s, w))
        => (/\ SoloRoomOf(s) \in DOMAIN rooms'
            /\ rooms'[SoloRoomOf(s)].players =
                 <<[id |-> s, userId |-> socketUserMap[s], score |-> 0]>>
            /\ rooms'[SoloRoomOf(s)].round = 1
            /\ rooms'[SoloRoomOf(s)].startedAt = now
            /\ rooms'[SoloRoomOf(s)].timeRemaining = SOLO_TIME_LIMIT
            /\ rooms'[SoloRoomOf(s)].currentTurn = socketUserMap[s]
            /\ intervals'[SoloRoomOf(s)] = 1)

\* C6: when the grace timer fires the match leaves the registry and its
\* countdown is stopped, and a later solo join of the identity gets a new match
\* at the same id: score 0, round 1, startedAt the time of that join.
C6_GraceExpiry == [][GraceExpires]_vars /\ [][FreshAfterExpiry]_vars

\* s1 left, the window passed, and u1 has a new match on s3
C6_Witness ==
    /\ "solo_u1" \in DOMAIN rooms
    /\ rooms["solo_u1"].players = <<[id |-> "s3", userId |-> "u1", score |-> 0]>>
    /\ rooms["solo_u1"].round = 1
    /\ rooms["solo_u1"].startedAt >= SOLO_RECONNECT_WINDOW
    /\ rooms["solo_u1"].timeRemaining = SOLO_TIME_LIMIT
    /\ "s1" \notin connected
    /\ timeouts["solo_u1"] = <<>>
    /\ intervals["solo_u1"] = 1

\* the tick that finds the time used up: the turn holder goes from the
\* participant to empty
TickConcludes(r) ==
    /\ Tick(r)
    /\ r \in DOMAIN rooms
    /\ rooms[r].currentTurn # ""
    /\ r \in DOMAIN rooms'
    /\ rooms'[r].currentTurn = ""

SubmitsOnConclusion ==
    \A r \in SoloRoomIds :
        TickConcludes(r) /\ rooms[r].players[1].score > 0
            => leaderboard' = submitScore(leaderboard, rooms[r].players[1].score)

\* C7: the tick that concludes a solo match hands the participant's positive
\* score to the leaderboard.
C7_SubmitsOnce == [][SubmitsOnConclusion]_vars

TimeNeverNegative ==
    \A r \in DOMAIN rooms : rooms[r].mode = "solo" => rooms[r].timeRemaining >= 0

\* within one match (same startedAt) timeRemaining does not grow
TimeNonIncreasing ==
    \A r \in SoloRoomIds :
        (/\ r \in DOMAIN rooms
         /\ r \in DOMAIN rooms'
         /\ rooms'[r].startedAt = rooms[r].startedAt)
        => rooms'[r].timeRemaining <= rooms[r].timeRemaining

TickAtExpiry ==
    \A r \in SoloRoomIds :
        (/\ Tick(r)
         /\ r \in DOMAIN rooms
         /\ now - rooms[r].startedAt >= rooms[r].timeLimit)
        => (r \in DOMAIN rooms' /\ rooms'[r].timeRemaining = 0)

\* C8: timeRemaining of a solo match is never negative, never grows from one
\* state to the next, and a tick at or after startedAt + timeLimit sets it to 0.
C8_TimeRemaining ==
    /\ []TimeNeverNegative
    /\ [][TimeNonIncreasing]_vars
    /\ [][TickAtExpiry]_vars

\* a tick came later than the limit and left exactly 0
C8_Witness ==
    /\ "solo_u1" \in DOMAIN rooms
    /\ now - rooms["solo_u1"].startedAt > rooms["solo_u1"].timeLimit
    /\ rooms["solo_u1"].timeRemaining = 0
    /\ emitted = {"timerUpdate", "gameState"}

\* a shot of a connection in the arena whose identity does not hold the turn
NotTurnShot(s, d) ==
    /\ InArena(s)
    /\ rooms[ARENA].currentTurn # socketUserMap[s]
    /\ Shoot(s, d)

ShotOutOfTurnIgnored ==
    \A s \in Sockets, d \in AimDistances :
        NotTurnShot(s, d) =>
            (/\ rooms' = rooms
             /\ "shotResult" \notin emitted'
             /\ "gameState" \notin emitted')

\* C9: a duel shot from an identity that is not the turn holder changes no
\* score, turn holder, round or wind, and broadcasts neither a shot result nor
\* a match state.
C9_NotYourTurn == [][ShotOutOfTurnIgnored]_vars

\* the duel has two participants, nobody has left and the last handler, a
\* shot out of turn, emitted nothing
C9_Witness ==
    /\ ARENA \in DOMAIN rooms
    /\ Len(rooms[ARENA].players) = 2
    /\ rooms[ARENA].currentTurn = rooms[ARENA].players[2].userId
    /\ rooms[ARENA].players[1].score > 0
    /\ InArena(rooms[ARENA].players[1].id)
    /\ connected = Sockets
    /\ emitted = {}

InSoloOver(s) ==
    /\ s \in connected
    /\ socketUserMap[s] # NoUser
    /\ socketRooms[s] # <<>>
    /\ socketRooms[s][1] \in DOMAIN rooms
    /\ rooms[socketRooms[s][1]].mode = "solo"
    /\ rooms[socketRooms[s][1]].timeRemaining <= 0

ShotAfterTimeIgnored ==
    \A s \in Sockets, d \in AimDistances :
        InSoloOver(s) /\ Shoot(s, d) => rooms' = rooms

OverShotReturnsRoom ==
    \A r \in DOMAIN rooms :
        rooms[r].mode = "solo" /\ rooms[r].timeRemaining <= 0
            => \A u \in Users, d \in AimDistances :
                  handleShot(rooms[r], u, calculateShot(d)) = [room |-> rooms[r], ok |-> TRUE]

\* C10: in a solo match with timeRemaining <= 0 a shot changes nothing, and
\* handleShot returns the match as it is.
C10_OverShotNoop == []OverShotReturnsRoom /\ [][ShotAfterTimeIgnored]_vars

\* the match is over, its player is still connected, and the last handler, a
\* shot, emitted nothing
C10_Witness ==
    /\ "solo_u1" \in DOMAIN rooms
    /\ rooms["solo_u1"].timeRemaining = 0
    /\ rooms["solo_u1"].currentTurn = ""
    /\ InSoloOver(rooms["solo_u1"].players[1].id)
    /\ connected = Sockets
    /\ intervals["solo_u1"] = 0
    /\ timeouts["solo_u1"] = <<>>
    /\ emitted = {}

\* --------------------------------------------------------- rejected joins
OtherMode(mode) == IF mode = "solo" THEN "multiplayer" ELSE "solo"

\* a join handler of a registered connection that answered with an error
RejectedJoinStep(s) ==
    /\ s \in connected
    /\ socketUserMap[s] # NoUser
    /\ \E w \in InitialWinds : JoinMultiplayer(s, w) \/ JoinSolo(s, w)
    /\ emitted' = {"error"}

RejectedJoinUnchanged == \A s \in Sockets : RejectedJoinStep(s) => rooms' = rooms

\* joinRoom on a registered match in the other mode returns nothing and
\* leaves the registry as it is
ModeMismatchRejected ==
    \A r \in DOMAIN rooms, s \in Sockets, u \in Users, w \in Winds :
        joinRoom(rooms, r, s, u, OtherMode(rooms[r].mode), w, now)
            = [rooms |-> rooms, ok |-> FALSE]

\* a match that is registered before and after a step keeps its mode
ModeKept ==
    \A r \in DOMAIN rooms : r \in DOMAIN rooms' => rooms'[r].mode = rooms[r].mode

\* C11: a join rejected for capacity leaves the registry, and so every field
\* of the match, unchanged; joinRoom in a mode other than the match's returns
\* nothing and leaves the registry unchanged; no step changes a match's mode.
C11_RejectedJoinUnchanged ==
    /\ [][RejectedJoinUnchanged]_vars
    /\ []ModeMismatchRejected
    /\ [][ModeKept]_vars

\* a third identity was refused by a duel in progress: a score is on the
\* board and the refused connection holds no room
C11_Witness ==
    /\ ARENA \in DOMAIN rooms
    /\ Len(rooms[ARENA].players) = 2
    /\ rooms[ARENA].players[1].score > 0
    /\ rooms[ARENA].round > 1
    /\ emitted = {"error"}
    /\ \E s \in connected :
          /\ socketUserMap[s] # NoUser
          /\ IndexOfUser(rooms[ARENA].players, socketUserMap[s]) = 0
          /\ socketRooms[s] = <<>>

\* --------------------------------------------------------- duel disconnect
\* the disconnect of one of the two participants of the duel
DuelLeaves(s) ==
    /\ Disconnect(s)
    /\ ARENA \in DOMAIN rooms
    /\ Len(rooms[ARENA].players) = 2
    /\ IndexOfSocket(rooms[ARENA].players, s) # 0

RemainingReset ==
    \A s \in Sockets :
        DuelLeaves(s) =>
            (/\ ARENA \in DOMAIN rooms'
             /\ Len(rooms'[ARENA].players) = 1
             /\ rooms'[ARENA].players[1].score = 0
             /\ rooms'[ARENA].round = 1
             /\ rooms'[ARENA].currentTurn = rooms'[ARENA].players[1].userId)

\* C12: when one of two duel participants disconnects, the match stays
\* registered with the remaining participant's score 0, round 1 and the turn
\* held by the remaining participant, also when the turn holder was empty.
C12_DisconnectResets == [][RemainingReset]_vars

\* --------------------------------------------------------- countdown drivers
\* at most one driver runs for a solo id, and it is the one soloTimers holds
OneDriver ==
    \A r \in SoloRoomIds :
        /\ intervals[r] \in {0, 1}
        /\ soloTimers[r] <=> intervals[r] = 1

\* the driver that ticks is the registered one
TickIsRegistered == \A r \in SoloRoomIds : Tick(r) => soloTimers[r] /\ intervals[r] = 1

\* once no driver runs, only a solo join of that id starts one
StoppedStays ==
    \A r \in SoloRoomIds :
        intervals[r] = 0 /\ intervals'[r] > 0
            => \E s \in Sockets, w \in InitialWinds :
                  SoloRoomOf(s) = r /\ JoinSolo(s, w)

\* stopping where nothing runs changes nothing about the drivers
StopIdempotent ==
    \A r \in SoloRoomIds :
        ~soloTimers[r] /\ (CleanupFire(r) \/ \E s \in Sockets : Disconnect(s))
            => intervals'[r] = intervals[r] /\ ~soloTimers'[r]

NoPendingAfterRejoin ==
    \A s \in Sockets : RejoinInGrace(s) => timeouts'[SoloRoomOf(s)] = <<>>

\* C15: after a rejoin of the identity before the grace window elapses no
\* deferred deletion is pending for the match id, however many disconnects
\* came before the rejoin.
C15_NoPendingAfterRejoin == [][NoPendingAfterRejoin]_vars

\* a connection registered with the identity of the match holds its slot
BoundConnected(r) ==
    /\ r \in DOMAIN rooms
    /\ Len(rooms[r].players) = 1
    /\ rooms[r].players[1].id \in connected
    /\ socketUserMap[rooms[r].players[1].id] = rooms[r].players[1].userId

\* C16: while a registered connection of the owning identity is bound to a
\* solo match, no deferred deletion is pending for that match.
C16_NoGraceWhileBound ==
    \A r \in SoloRoomIds :
        BoundConnected(r) => timeouts[r] = <<>> /\ ~cleanupTimers[r]

\* --------------------------------------------------------- solo shots
\* a shot of a connection in a solo room that the handler let through
SoloShotStep(s, d) ==
    /\ s \in connected
    /\ socketRooms[s] # <<>>
    /\ socketRooms[s][1] \in DOMAIN rooms
    /\ rooms[socketRooms[s][1]].mode = "solo"
    /\ Shoot(s, d)
    /\ "shotResult" \in emitted'

\* the shot's score goes to the participant, round grows by one, the turn
\* holder stays
SoloShotCredits ==
    \A s \in Sockets, d \in AimDistances :
        SoloShotStep(s, d) =>
            LET r == socketRooms[s][1]
            IN  /\ rooms'[r].players[1].score = rooms[r].players[1].score + calculateShot(d)
                /\ rooms'[r].round = rooms[r].round + 1
                /\ rooms'[r].currentTurn = rooms[r].currentTurn

\* the sole participant holds the turn until the tick that ends the match
SoloTurnHolder ==
    \A r \in SoloRoomIds :
        r \in DOMAIN rooms =>
            \/ rooms[r].currentTurn = rooms[r].players[1].userId
            \/ rooms[r].currentTurn = "" /\ rooms[r].timeRemaining = 0

SoloTurnLostByTick ==
    \A r \in SoloRoomIds :
        (/\ r \in DOMAIN rooms
         /\ r \in DOMAIN rooms'
         /\ rooms[r].currentTurn # ""
         /\ rooms'[r].currentTurn = "")
        => Tick(r)

\* C17: an accepted shot in a solo match adds its score to the sole
\* participant's score, increments round by one and leaves the turn holder
\* unchanged; the turn holder of a solo match is its participant until a tick
\* concludes the match.
C17_SoloShot ==
    /\ [][SoloShotCredits]_vars
    /\ []SoloTurnHolder
    /\ [][SoloTurnLostByTick]_vars

\* --------------------------------------------------------- wind of the duel
\* a shot changes the wind exactly when it takes round up without passing
\* maxRounds
RerollOnRoundAdvance ==
    DuelShotStep =>
        (rooms'[ARENA].wind # rooms[ARENA].wind
            <=> (/\ rooms'[ARENA].round = rooms[ARENA].round + 1
                 /\ rooms'[ARENA].round <= rooms[ARENA].maxRounds))

\* C18: a duel shot rerolls the wind only when it advances round without
\* concluding the match; a shot that does not complete a cycle and the shot
\* that concludes the match leave the wind as it is.
C18_WindReroll == [][RerollOnRoundAdvance]_vars

\* two participants have played the duel to its end: the last shot took
\* round past maxRounds and the wind is the one of round 5
C18_Witness ==
    /\ ARENA \in DOMAIN rooms
    /\ Len(rooms[ARENA].players) = 2
    /\ rooms[ARENA].round = rooms[ARENA].maxRounds + 1
    /\ rooms[ARENA].currentTurn = ""
    /\ rooms[ARENA].players[2].score > 0
    /\ rooms[ARENA].wind = 0
    /\ emitted = {"shotResult", "gameState"}

\* --------------------------------------------------------- first joins
FirstDuelJoin ==
    \A s \in Sockets :
        (/\ s \in connected
         /\ socketUserMap[s] # NoUser
         /\ ARENA \notin DOMAIN rooms
         /\ \E w \in InitialWinds : JoinMultiplayer(s, w))
        => (/\ ARENA \in DOMAIN rooms'
            /\ rooms'[ARENA].players =
                 <<[id |-> s, userId |-> socketUserMap[s], score |-> 0]>>
            /\ rooms'[ARENA].currentTurn = socketUserMap[s])

SecondDuelJoin ==
    \A s \in Sockets :
        (/\ ARENA \in DOMAIN rooms
         /\ ARENA \in DOMAIN rooms'
         /\ Len(rooms[ARENA].players) = 1
         /\ Len(rooms'[ARENA].players) = 2
         /\ \E w \in InitialWinds : JoinMultiplayer(s, w))
        => rooms'[ARENA].currentTurn = rooms[ARENA].currentTurn

\* a solo join that finds no match of the identity, or one that is over
FirstSoloJoin ==
    \A s \in Sockets :
        (/\ s \in connected
         /\ socketUserMap[s] \in SoloUsers
         /\ ~findActiveGame(rooms, socketUserMap[s])
         /\ \E w \in InitialWinds : JoinSolo(s, w))
        => (/\ SoloRoomOf(s) \in DOMAIN rooms'
            /\ rooms'[SoloRoomOf(s)].currentTurn = socketUserMap[s]
            /\ rooms'[SoloRoomOf(s)].startedAt = now
            /\ rooms'[SoloRoomOf(s)].round = 1)

\* C19: the first participant of a fresh duel match becomes the turn holder,
\* the join that brings the duel to two participants leaves the turn holder
\* as it is, and the first participant of a fresh solo match becomes the turn
\* holder with startedAt the time of the join and round 1.
C19_FirstJoin ==
    /\ [][FirstDuelJoin]_vars
    /\ [][SecondDuelJoin]_vars
    /\ [][FirstSoloJoin]_vars

\* the second participant has just joined the duel, the first one holds the
\* turn, and a solo match has been started
C19_Witness ==
    /\ ARENA \in DOMAIN rooms
    /\ Len(rooms[ARENA].players) = 2
    /\ rooms[ARENA].currentTurn = rooms[ARENA].players[1].userId
    /\ rooms[ARENA].round = 1
    /\ emitted = {"gameState"}
    /\ "solo_u1" \in DOMAIN rooms
    /\ rooms["solo_u1"].currentTurn = "u1"
    /\ rooms["solo_u1"].round = 1
    /\ rooms["solo_u1"].startedAt = now

\* --------------------------------------------------------- wall-clock time
TickFromClock ==
    \A r \in SoloRoomIds :
        Tick(r) /\ r \in DOMAIN rooms
            => (/\ r \in DOMAIN rooms'
                /\ rooms'[r].timeRemaining =
                     IF now - rooms[r].startedAt >= rooms[r].timeLimit
                     THEN 0
                     ELSE rooms[r].timeLimit - (now - rooms[r].startedAt))

\* startedAt of a registered match changes only when a solo join replaces
\* a match that is over by a new one
StartedAtKept ==
    \A r \in DOMAIN rooms :
        r \in DOMAIN rooms' /\ rooms'[r].startedAt # rooms[r].startedAt
            => \E s \in Sockets, w \in InitialWinds :
                  /\ socketUserMap[s] \in SoloUsers
                  /\ SoloRoomOf(s) = r
                  /\ isSoloGameOver(rooms[r])
                  /\ JoinSolo(s, w)

LastClock == (MaxClock \div ClockStep) * ClockStep

\* the start times whose limit the bounded clock reaches
StartTimes ==
    {k * ClockStep : k \in 0..(MaxClock \div ClockStep)}
        \cap {st \in 0..MaxClock : st + SOLO_TIME_LIMIT <= LastClock}

\* the solo match of id r that started at st is in the registry
SoloStarted(r, st) ==
    /\ r \in DOMAIN rooms
    /\ Len(rooms[r].players) = 1
    /\ rooms[r].startedAt = st

\* that match has concluded (no turn holder, no driver) or has left the
\* registry, for good or for a new match at the same id
SoloEnded(r, st) ==
    \/ r \notin DOMAIN rooms
    \/ rooms[r].startedAt # st
    \/ rooms[r].currentTurn = "" /\ intervals[r] = 0 /\ ~soloTimers[r]

\* C21: with timers that fire and a clock that advances, every solo match
\* that has started eventually concludes (turn holder empty, driver stopped)
\* or leaves the registry, whatever the connections do.
C21_SoloEnds ==
    \A r \in SoloRoomIds, st \in StartTimes : SoloStarted(r, st) ~> SoloEnded(r, st)

\* the match of u1 went on through a disconnect and a rejoin on s3 and was
\* concluded by the countdown under the player who came back
C21_Witness ==
    /\ "solo_u1" \in DOMAIN rooms
    /\ rooms["solo_u1"].players[1].id = "s3"
    /\ "s1" \notin connected
    /\ "s3" \in connected
    /\ rooms["solo_u1"].startedAt = 0
    /\ rooms["solo_u1"].currentTurn = ""
    /\ rooms["solo_u1"].timeRemaining = 0
    /\ intervals["solo_u1"] = 0
    /\ ~soloTimers["solo_u1"]

\* --------------------------------------------------------- length of a duel
\* the score of every shot of the duel of two who stay
HitScore == calculateShot(CHOOSE d \in MainAimDistances : TRUE)

\* the shots accepted from participant i: each one has added HitScore
ShotsOf(room, i) == room.players[i].score \div HitScore

\* every accepted shot is counted once, for the identity that held the turn
ShotCounted ==
    DuelShotStep =>
        \A i \in 1..2 :
            ShotsOf(rooms'[ARENA], i) =
                ShotsOf(rooms[ARENA], i)
                    + (IF rooms[ARENA].players[i].userId = rooms[ARENA].currentTurn
                       THEN 1 ELSE 0)

\* the match is concluded exactly when 2 x maxRounds shots have been
\* accepted, maxRounds from each participant
ConcludedAtTwiceLimit ==
    ARENA \in DOMAIN rooms /\ Len(rooms[ARENA].players) = 2 =>
        LET room == rooms[ARENA]
            total == ShotsOf(room, 1) + ShotsOf(room, 2)
        IN  /\ total <= 2 * room.maxRounds
            /\ room.currentTurn = "" <=> total = 2 * room.maxRounds
            /\ room.currentTurn = "" =>
                  ShotsOf(room, 1) = room.maxRounds /\ ShotsOf(room, 2) = room.maxRounds

\* C22: a duel whose two participants joined before any shot and stay
\* concludes (turn holder empty) after exactly 2 x maxRounds accepted shots,
\* maxRounds of them from each participant.
C22_DuelLength == []ConcludedAtTwiceLimit /\ [][ShotCounted]_vars

\* the tenth shot has just concluded the duel: five shots each
C22_Witness ==
    /\ ARENA \in DOMAIN rooms
    /\ Len(rooms[ARENA].players) = 2
    /\ rooms[ARENA].currentTurn = ""
    /\ ShotsOf(rooms[ARENA], 1) = DUEL_MAX_ROUNDS
    /\ ShotsOf(rooms[ARENA], 2) = DUEL_MAX_ROUNDS
    /\ rooms[ARENA].round = DUEL_MAX_ROUNDS + 1
    /\ emitted = {"shotResult", "gameState"}

\* --------------------------------------------------------- the lone participant
\* a shot is taken only by a duel of two
NoLoneShot == DuelShotStep => Len(rooms[ARENA].players) = 2

\* the join that brings the duel to two finds round 1 and a turn holder
SecondJoinerAtStart ==
    (/\ ARENA \in DOMAIN rooms
     /\ ARENA \in DOMAIN rooms'
     /\ Len(rooms[ARENA].players) = 1
     /\ Len(rooms'[ARENA].players) = 2)
    => rooms'[ARENA].round = 1 /\ rooms'[ARENA].currentTurn # ""

\* C23: no shot is accepted in a duel match that holds one participant, so
\* the second joiner enters a match at round 1 with a non-empty turn holder.
C23_NoLoneShot == [][NoLoneShot]_vars /\ [][SecondJoinerAtStart]_vars

\* --------------------------------------------------------- shots after the limit
\* a solo shot is let through only while the limit has not elapsed
NoShotAfterLimit ==
    \A s \in Sockets, d \in AimDistances :
        SoloShotStep(s, d) =>
            now - rooms[socketRooms[s][1]].startedAt < rooms[socketRooms[s][1]].timeLimit

\* C24: no shot is credited to a solo match once timeLimit seconds have
\* elapsed since startedAt, also before the next tick has recomputed
\* timeRemaining.
C24_NoShotAfterLimit == [][NoShotAfterLimit]_vars

\* --------------------------------------------------------- frame of a shot
\* a shot of a connection in a registered room that the handler let through
ShotStep(s, d) ==
    /\ s \in connected
    /\ socketRooms[s] # <<>>
    /\ socketRooms[s][1] \in DOMAIN rooms
    /\ Shoot(s, d)
    /\ "shotResult" \in emitted'

\* the acting participant's score grows by the shot's score; the other
\* scores, the participants and the other matches stay
ShotFrame ==
    \A s \in Sockets, d \in AimDistances :
        ShotStep(s, d) =>
            LET r == socketRooms[s][1]
            IN  /\ DOMAIN rooms' = DOMAIN rooms
                /\ \A q \in DOMAIN rooms \ {r} : rooms'[q] = rooms[q]
                /\ Len(rooms'[r].players) = Len(rooms[r].players)
                /\ \A i \in 1..Len(rooms[r].players) :
                      /\ rooms'[r].players[i].id = rooms[r].players[i].id
                      /\ rooms'[r].players[i].userId = rooms[r].players[i].userId
                      /\ rooms'[r].players[i].score =
                            rooms[r].players[i].score
                              + (IF rooms[r].players[i].userId = socketUserMap[s]
                                 THEN calculateShot(d) ELSE 0)

\* a shot of an identity that holds no slot in the room changes nothing
OutsiderShotIgnored ==
    \A s \in Sockets, d \in AimDistances :
        (/\ s \in connected
         /\ socketRooms[s] # <<>>
         /\ socketRooms[s][1] \in DOMAIN rooms
         /\ IndexOfUser(rooms[socketRooms[s][1]].players, socketUserMap[s]) = 0
         /\ Shoot(s, d))
        => rooms' = rooms

\* C25: an accepted shot adds its score to the acting participant's score
\* and to no other, keeps the participants and their order and every other
\* match; a shot of an identity that is not a participant of the match
\* changes no field of it.
C25_ShotFrame == [][ShotFrame]_vars /\ [][OutsiderShotIgnored]_vars

====
